---- MODULE Spec2Model ----
(***************************************************************************)
(* Model of the schema-driven table builder and bulk loader of swtrs-db    *)
(* (src/src/schema.rs): NewDB::create_table, NewDB::load_data and          *)
(* NewDB::init_lookup_tables acting on one SQLite connection.              *)
(*                                                                         *)
(* Text (a CSV cell, a header name, a column name) is a sequence of        *)
(* chunks; the chunk " " is whitespace, every other chunk is visible text. *)
(* A stored value is a record: NULL, or a text.                            *)
(***************************************************************************)
EXTENDS Integers, Sequences, FiniteSets, TLC

VARIABLES db, last, log, loaded, ops

vars == <<db, last, log, loaded, ops>>

\* Number of calls made on a connection in one run.
MaxOps == 3

------------------------------------------------------------------------------
(* Values and text *)

Null == [isNull |-> TRUE, text |-> <<>>]
Text(s) == [isNull |-> FALSE, text |-> s]

IsSpace(c) == c = " "

RECURSIVE TrimStart(_)
TrimStart(s) ==
    IF s = <<>> THEN <<>>
    ELSE IF IsSpace(Head(s)) THEN TrimStart(Tail(s)) ELSE s

RECURSIVE TrimEnd(_)
TrimEnd(s) ==
    IF s = <<>> THEN <<>>
    ELSE IF IsSpace(s[Len(s)]) THEN TrimEnd(SubSeq(s, 1, Len(s) - 1)) ELSE s

\* csv::Trim::All: headers and fields lose their surrounding whitespace.
Trim(s) == TrimEnd(TrimStart(s))

TrimRecord(r) == [i \in 1..Len(r) |-> Trim(r[i])]

\* The value of a call, computed once: the element of a one-element set.
The(S) == CHOOSE x \in S : TRUE

\* Results: Ok(val) or Err(err).
Ok(v) == [ok |-> TRUE, val |-> v, err |-> "none"]
Err(e) == [ok |-> FALSE, val |-> 0, err |-> e]

------------------------------------------------------------------------------
(* The files of a run: DDL templates and CSV data files.  A path outside   *)
(* the domain of FileSystem is a file that cannot be read.                 *)

Lit(x) == <<"lit", x>>
Ph(k) == <<"ph", k>>

Col(n, t, pk, ref) == [name |-> n, type |-> t, pk |-> pk, ref |-> ref]

NoRef == Lit("")

PkTableSql ==
    [kind |-> "ddl",
     stmts |-> << [table |-> Ph("table"),
                   cols |-> << Col(<<"id">>, Ph("pk_type"), TRUE, NoRef),
                               Col(<<"name">>, Lit("TEXT"), FALSE, NoRef) >>] >>]

CollisionsSql ==
    [kind |-> "ddl",
     stmts |-> << [table |-> Ph("table"),
                   cols |-> << Col(<<"case_id">>, Lit("TEXT"), TRUE, NoRef),
                               Col(<<"beat_type">>, Lit("CHAR(1)"), FALSE,
                                   Lit("beat_type")) >>] >>]

CustomSql ==
    [kind |-> "ddl",
     stmts |-> << [table |-> Ph("table"),
                   cols |-> << Col(<<"id">>, Ph("pk_type"), TRUE, NoRef),
                               Col(<<"name">>, Lit("TEXT"), FALSE, NoRef),
                               Col(<<"note">>, Lit("TEXT"), FALSE, NoRef) >>] >>]

BadSql ==
    [kind |-> "ddl",
     stmts |-> << [table |-> Ph("table"),
                   cols |-> << Col(<<"id">>, Ph("key_type"), TRUE, NoRef) >>] >>]

Csv(h, rs) == [kind |-> "csv", header |-> h, rows |-> rs]

BeatTypeCsv ==
    Csv(<< <<"id">>, <<"name">> >>,
        << << <<"A">>, <<"x">> >>,
           << <<"B">>, <<>> >> >>)

DayOfWeekCsv ==
    Csv(<< <<" ", "id">>, <<"name", " ">> >>,
        << << <<"1">>, <<" ", "x", " ", "y", " ">> >>,
           << <<" ", "2">>, <<" ">> >>,
           << <<"3">>, <<"-">> >> >>)

DupCsv ==
    Csv(<< <<"id">>, <<"name">> >>,
        << << <<"A">>, <<"x">> >>,
           << <<"A">>, <<"y">> >>,
           << <<"C">>, <<"-">> >> >>)

MalformedCsv ==
    Csv(<< <<"id">>, <<"name">> >>,
        << << <<"D">>, <<"x">> >>,
           << <<"E">> >>,
           << <<"F">>, <<"y">> >> >>)

EmptyCsv == Csv(<< >>, << >>)

CollisionsCsv ==
    Csv(<< <<"case_id">>, <<"beat_type">> >>,
        << << <<"1">>, <<"A">> >>,
           << <<"2">>, <<>> >>,
           << <<"3">>, <<"B">> >> >>)

CollisionsNullCsv ==
    Csv(<< <<"case_id">>, <<"beat_type">> >>,
        << << <<"7">>, <<" ">> >> >>)

FileSystem ==
    ("schema/pk_table.sql" :> PkTableSql)
    @@ ("schema/collisions.sql" :> CollisionsSql)
    @@ ("schema/custom.sql" :> CustomSql)
    @@ ("schema/bad.sql" :> BadSql)
    @@ ("lookup-tables/BEAT_TYPE.csv" :> BeatTypeCsv)
    @@ ("lookup-tables/DAY_OF_WEEK.csv" :> DayOfWeekCsv)
    @@ ("tests/data/dup.csv" :> DupCsv)
    @@ ("tests/data/malformed.csv" :> MalformedCsv)
    @@ ("tests/data/empty.csv" :> EmptyCsv)
    @@ ("tests/data/collisions.csv" :> CollisionsCsv)
    @@ ("tests/data/collisions_null.csv" :> CollisionsNullCsv)

Readable(path, kind) == path \in DOMAIN FileSystem /\ FileSystem[path].kind = kind

------------------------------------------------------------------------------
(* The database behind the connection: a function from the names of the    *)
(* existing tables to [cols, rows]; a row holds one value per column.      *)

EmptyDB == [t \in {} |-> 0]

DbPut(d, name, tbl) == [t \in (DOMAIN d) \cup {name} |-> IF t = name THEN tbl ELSE d[t]]

Rows(d, name) == IF name \in DOMAIN d THEN d[name].rows ELSE <<>>

PkIndex(tbl) == {j \in 1..Len(tbl.cols) : tbl.cols[j].pk}

------------------------------------------------------------------------------
(* Template rendering and DDL execution *)

Tokens(stmt) ==
    {stmt.table} \cup {stmt.cols[j].type : j \in 1..Len(stmt.cols)}
                 \cup {stmt.cols[j].ref : j \in 1..Len(stmt.cols)}

Placeholders(stmts) ==
    {tok[2] : tok \in {t \in UNION {Tokens(stmts[i]) : i \in 1..Len(stmts)} : t[1] = "ph"}}

\* Template::render fails when the template names a key the map lacks.
RenderOk(stmts, data) == Placeholders(stmts) \subseteq DOMAIN data

Subst(tok, data) == IF tok[1] = "ph" THEN data[tok[2]] ELSE tok[2]

Render(stmts, data) ==
    [i \in 1..Len(stmts) |->
        [table |-> Subst(stmts[i].table, data),
         cols |-> [j \in 1..Len(stmts[i].cols) |->
                      [name |-> stmts[i].cols[j].name,
                       type |-> Subst(stmts[i].cols[j].type, data),
                       pk |-> stmts[i].cols[j].pk,
                       ref |-> Subst(stmts[i].cols[j].ref, data)]]]]

\* Connection::execute_batch: the statements run in order and the batch
\* stops at the first one that fails; CREATE TABLE of an existing name fails.
RECURSIVE ExecuteBatch(_, _)
ExecuteBatch(d, stmts) ==
    IF stmts = <<>> THEN [db |-> d, res |-> Ok(0)]
    ELSE LET st == Head(stmts) IN
         IF st.table \in DOMAIN d
         THEN [db |-> d, res |-> Err("DatabaseError")]
         ELSE ExecuteBatch(DbPut(d, st.table, [cols |-> st.cols, rows |-> <<>>]),
                           Tail(stmts))

TemplateData(name, pk_type) == ("table" :> name) @@ ("pk_type" :> pk_type)

\* create_table with a DDL that tolerates re-creation: an existing table is
\* kept and the call succeeds.
CreateTableIfNotExists(d, name, pk_type, table_schema) ==
    IF table_schema \notin DOMAIN FileSystem
    THEN [db |-> d, res |-> Err("IOError"), executed |-> FALSE]
    ELSE LET ddl == FileSystem[table_schema]
             data == TemplateData(name, pk_type)
         IN  IF ddl.kind # "ddl"
             THEN [db |-> d, res |-> Err("DatabaseError"), executed |-> TRUE]
             ELSE IF ~RenderOk(ddl.stmts, data)
             THEN [db |-> d, res |-> Err("TemplateError"), executed |-> FALSE]
             ELSE LET r == ExecuteBatch(d, Render(ddl.stmts, data))
                  IN  [db |-> r.db, res |-> Ok(0), executed |-> TRUE]

\* create_table reading an unreadable template as an empty text: the empty
\* batch is executed and the call succeeds.
CreateTableReadDefault(d, name, pk_type, table_schema) ==
    IF table_schema \notin DOMAIN FileSystem
    THEN [db |-> d, res |-> Ok(0), executed |-> TRUE]
    ELSE LET ddl == FileSystem[table_schema]
             data == TemplateData(name, pk_type)
         IN  IF ddl.kind # "ddl"
             THEN [db |-> d, res |-> Err("DatabaseError"), executed |-> TRUE]
             ELSE IF ~RenderOk(ddl.stmts, data)
             THEN [db |-> d, res |-> Err("TemplateError"), executed |-> FALSE]
             ELSE LET r == ExecuteBatch(d, Render(ddl.stmts, data))
                  IN  [db |-> r.db, res |-> r.res, executed |-> TRUE]

\* NewDB::create_table
create_table(d, name, pk_type, table_schema) ==
    IF table_schema \notin DOMAIN FileSystem
    THEN [db |-> d, res |-> Err("IOError"), executed |-> FALSE]
    ELSE LET ddl == FileSystem[table_schema]
             data == TemplateData(name, pk_type)
         IN  IF ddl.kind # "ddl"
             THEN [db |-> d, res |-> Err("DatabaseError"), executed |-> TRUE]
             ELSE IF ~RenderOk(ddl.stmts, data)
             THEN [db |-> d, res |-> Err("TemplateError"), executed |-> FALSE]
             ELSE LET r == ExecuteBatch(d, Render(ddl.stmts, data))
                  IN  [db |-> r.db, res |-> r.res, executed |-> TRUE]

------------------------------------------------------------------------------
(* Statement preparation and row insertion *)

ColNames(tbl) == {tbl.cols[j].name : j \in 1..Len(tbl.cols)}

\* Foreign keys are enforced: a statement that writes a table whose parent
\* table does not exist cannot be prepared.
FkPrepareOk(d, name) ==
    \A j \in 1..Len(d[name].cols) :
        d[name].cols[j].ref # "" => d[name].cols[j].ref \in DOMAIN d

\* Connection::prepare of INSERT INTO name (fields) VALUES(?, ...)
PrepareOk(d, name, fields) ==
    /\ name \in DOMAIN d
    /\ \A i \in 1..Len(fields) : fields[i] \in ColNames(d[name])
    /\ FkPrepareOk(d, name)

\* An INSERT that binds the values to the fields in the opposite order.
NewRowReversed(tbl, fields, vals) ==
    [j \in 1..Len(tbl.cols) |->
        IF \E i \in 1..Len(fields) : fields[i] = tbl.cols[j].name
        THEN vals[Len(fields) + 1
                  - (CHOOSE i \in 1..Len(fields) : fields[i] = tbl.cols[j].name)]
        ELSE Null]

\* The row an INSERT builds: the bound value of the column's field, NULL for
\* a column the statement does not name.
NewRow(tbl, fields, vals) ==
    [j \in 1..Len(tbl.cols) |->
        IF \E i \in 1..Len(fields) : fields[i] = tbl.cols[j].name
        THEN vals[CHOOSE i \in 1..Len(fields) : fields[i] = tbl.cols[j].name]
        ELSE Null]

\* A non-NULL primary key value must not be in the table yet.
PkRowOk(tbl, row) ==
    \A j \in PkIndex(tbl) :
        row[j].isNull \/ \A k \in 1..Len(tbl.rows) : tbl.rows[k][j] # row[j]

\* A non-NULL reference must be the key of a row of the parent table.
FkRowOk(d, tbl, row) ==
    \A j \in 1..Len(tbl.cols) :
        (tbl.cols[j].ref # "" /\ ~row[j].isNull) =>
            LET parent == d[tbl.cols[j].ref]
            IN  \E k \in 1..Len(parent.rows) :
                    \E p \in PkIndex(parent) : parent.rows[k][p] = row[j]

InsertOk(d, name, fields, vals) ==
    LET row == NewRow(d[name], fields, vals)
    IN  PkRowOk(d[name], row) /\ FkRowOk(d, d[name], row)

\* Statement::insert: the row is appended to the table (autocommit).
Insert(d, name, fields, vals) ==
    DbPut(d, name, [d[name] EXCEPT !.rows = Append(@, NewRow(d[name], fields, vals))])

------------------------------------------------------------------------------
(* NewDB::load_data *)

\* The map with "-" bound as NULL too.
ParamDashNull(s) == IF s = <<>> \/ s = <<"-">> THEN Null ELSE Text(s)

\* The map over the record's fields: an empty field binds NULL.
Param(s) == IF s = <<>> THEN Null ELSE Text(s)

Params(record) == [i \in 1..Len(record) |-> Param(record[i])]

\* The loop with a failed insert skipped: the loop goes on with the next row.
RECURSIVE InsertRecordsSkipFailed(_, _, _, _, _)
InsertRecordsSkipFailed(d, name, fields, records, count) ==
    IF records = <<>> THEN [db |-> d, res |-> Ok(count), count |-> count]
    ELSE LET raw == Head(records) IN
         IF Len(raw) # Len(fields)
         THEN [db |-> d, res |-> Err("FormatError"), count |-> count]
         ELSE LET params == Params(TrimRecord(raw)) IN
              IF ~InsertOk(d, name, fields, params)
              THEN InsertRecordsSkipFailed(d, name, fields, Tail(records), count)
              ELSE The({InsertRecordsSkipFailed(next, name, fields, Tail(records), count + 1) :
                           next \in {Insert(d, name, fields, params)}})

\* The loop returning its count, as a success, when an insert fails.
RECURSIVE InsertRecordsOkOnFailure(_, _, _, _, _)
InsertRecordsOkOnFailure(d, name, fields, records, count) ==
    IF records = <<>> THEN [db |-> d, res |-> Ok(count), count |-> count]
    ELSE LET raw == Head(records) IN
         IF Len(raw) # Len(fields)
         THEN [db |-> d, res |-> Err("FormatError"), count |-> count]
         ELSE LET params == Params(TrimRecord(raw)) IN
              IF ~InsertOk(d, name, fields, params)
              THEN [db |-> d, res |-> Ok(count), count |-> count]
              ELSE The({InsertRecordsOkOnFailure(next, name, fields, Tail(records), count + 1) :
                           next \in {Insert(d, name, fields, params)}})

\* The loop over a reader that drops records of the wrong length.
RECURSIVE InsertRecordsSkipMalformed(_, _, _, _, _)
InsertRecordsSkipMalformed(d, name, fields, records, count) ==
    IF records = <<>> THEN [db |-> d, res |-> Ok(count), count |-> count]
    ELSE LET raw == Head(records) IN
         IF Len(raw) # Len(fields)
         THEN InsertRecordsSkipMalformed(d, name, fields, Tail(records), count)
         ELSE LET params == Params(TrimRecord(raw)) IN
              IF ~InsertOk(d, name, fields, params)
              THEN [db |-> d, res |-> Err("DatabaseError"), count |-> count]
              ELSE The({InsertRecordsSkipMalformed(next, name, fields, Tail(records), count + 1) :
                           next \in {Insert(d, name, fields, params)}})

\* The loop over csv.into_records(): the record is read (a record whose
\* length differs from the header's is a csv error), its fields are bound
\* and inserted, and count goes up; the first error ends the loop.
RECURSIVE InsertRecords(_, _, _, _, _)
InsertRecords(d, name, fields, records, count) ==
    IF records = <<>> THEN [db |-> d, res |-> Ok(count), count |-> count]
    ELSE LET raw == Head(records) IN
         IF Len(raw) # Len(fields)
         THEN [db |-> d, res |-> Err("FormatError"), count |-> count]
         ELSE LET params == Params(TrimRecord(raw)) IN
              IF ~InsertOk(d, name, fields, params)
              THEN [db |-> d, res |-> Err("DatabaseError"), count |-> count]
              ELSE The({InsertRecords(next, name, fields, Tail(records), count + 1) :
                           next \in {Insert(d, name, fields, params)}})

\* load_data without the field_count test: the statement over no column is
\* prepared, which the database refuses.
LoadDataNoEmptyCheck(d, name, table_data) ==
    IF ~Readable(table_data, "csv")
    THEN [db |-> d, res |-> Err("IOError"), count |-> 0, prepared |-> FALSE]
    ELSE LET csv == FileSystem[table_data]
             headers_record == TrimRecord(csv.header)
             field_count == Len(headers_record)
         IN  IF field_count = 0 \/ ~PrepareOk(d, name, headers_record)
             THEN [db |-> d, res |-> Err("DatabaseError"), count |-> 0,
                   prepared |-> field_count = 0]
             ELSE The({[db |-> r.db, res |-> r.res, count |-> r.count, prepared |-> TRUE] :
                          r \in {InsertRecords(d, name, headers_record, csv.rows, 0)}})

\* load_data taking a statement that cannot be prepared as nothing to load.
LoadDataSwallowPrepare(d, name, table_data) ==
    IF ~Readable(table_data, "csv")
    THEN [db |-> d, res |-> Err("IOError"), count |-> 0, prepared |-> FALSE]
    ELSE LET csv == FileSystem[table_data]
             headers_record == TrimRecord(csv.header)
             field_count == Len(headers_record)
         IN  IF field_count = 0 \/ ~PrepareOk(d, name, headers_record)
             THEN [db |-> d, res |-> Ok(0), count |-> 0, prepared |-> FALSE]
             ELSE The({[db |-> r.db, res |-> r.res, count |-> r.count, prepared |-> TRUE] :
                          r \in {InsertRecords(d, name, headers_record, csv.rows, 0)}})

load_data(d, name, table_data) ==
    IF ~Readable(table_data, "csv")
    THEN [db |-> d, res |-> Err("IOError"), count |-> 0, prepared |-> FALSE]
    ELSE LET csv == FileSystem[table_data]
             headers_record == TrimRecord(csv.header)
             field_count == Len(headers_record)
         IN  IF field_count = 0
             THEN [db |-> d, res |-> Ok(0), count |-> 0, prepared |-> FALSE]
             ELSE IF ~PrepareOk(d, name, headers_record)
             THEN [db |-> d, res |-> Err("DatabaseError"), count |-> 0,
                   prepared |-> FALSE]
             ELSE The({[db |-> r.db, res |-> r.res, count |-> r.count, prepared |-> TRUE] :
                          r \in {InsertRecords(d, name, headers_record, csv.rows, 0)}})

------------------------------------------------------------------------------
(* NewDB::init_lookup_tables and the build of tests::test_create_collisions *)

Step(kind, op, name, path, r) ==
    [kind |-> kind, op |-> op, name |-> name, path |-> path,
     ok |-> r.res.ok, err |-> r.res.err, db |-> r.db]

\* The orders in which a HashMap over the names of S may be iterated.
Orders(S) ==
    {o \in [1..Cardinality(S) -> S] : \A i, j \in 1..Cardinality(S) : o[i] = o[j] => i = j}

\* The resolution that ignores the entry's own template.
ResolveSchemaDefaultOnly(table, table_schema) == table_schema

\* Option<PathBuf>::as_deref().unwrap_or(table_schema)
ResolveSchema(table, table_schema) ==
    IF table.schema = <<>> THEN table_schema ELSE table.schema[1]

\* A call of create_table or load_data on the database of acc; the call is
\* added to the log of acc.
CallCreate(acc, kind, name, pk_type, schema) ==
    The({[db |-> c.db, res |-> c.res,
          log |-> Append(acc.log, Step(kind, "create_table", name, schema, c))] :
            c \in {create_table(acc.db, name, pk_type, schema)}})

CallLoad(acc, kind, name, data) ==
    The({[db |-> l.db, res |-> l.res,
          log |-> Append(acc.log, Step(kind, "load_data", name, data, l))] :
            l \in {load_data(acc.db, name, data)}})

\* The loop with the result of create_table dropped: load_data follows a
\* failed create_table.
RECURSIVE InitEntriesNoCreateCheck(_, _, _, _)
InitEntriesNoCreateCheck(acc, lookup_tables, table_schema, order) ==
    IF order = <<>> THEN [acc EXCEPT !.res = Ok(0)]
    ELSE LET name == Head(order)
             table == lookup_tables[name]
             schema == ResolveSchema(table, table_schema)
         IN  The({The({IF ~l.res.ok THEN l
                       ELSE InitEntriesNoCreateCheck(l, lookup_tables, table_schema,
                                                     Tail(order)) :
                         l \in {CallLoad(c, "lookup", name, table.data)}}) :
                    c \in {CallCreate(acc, "lookup", name, table.pk_type, schema)}})

\* The loop returning Ok(()) from inside its body: only the first entry of
\* the iteration is created and loaded.
InitEntriesFirstOnly(acc, lookup_tables, table_schema, order) ==
    IF order = <<>> THEN [acc EXCEPT !.res = Ok(0)]
    ELSE LET name == Head(order)
             table == lookup_tables[name]
             schema == ResolveSchema(table, table_schema)
         IN  The({IF ~c.res.ok THEN c
                  ELSE The({IF ~l.res.ok THEN l ELSE [l EXCEPT !.res = Ok(0)] :
                              l \in {CallLoad(c, "lookup", name, table.data)}}) :
                    c \in {CallCreate(acc, "lookup", name, table.pk_type, schema)}})

\* for (name, table) in lookup_tables: create_table(..)?; load_data(..)?;
RECURSIVE InitEntries(_, _, _, _)
InitEntries(acc, lookup_tables, table_schema, order) ==
    IF order = <<>> THEN [acc EXCEPT !.res = Ok(0)]
    ELSE LET name == Head(order)
             table == lookup_tables[name]
             schema == ResolveSchema(table, table_schema)
         IN  The({IF ~c.res.ok THEN c
                  ELSE The({IF ~l.res.ok THEN l
                            ELSE InitEntries(l, lookup_tables, table_schema, Tail(order)) :
                              l \in {CallLoad(c, "lookup", name, table.data)}}) :
                    c \in {CallCreate(acc, "lookup", name, table.pk_type, schema)}})

init_lookup_tables(d, lookup_tables, table_schema, order) ==
    InitEntries([db |-> d, res |-> Ok(0), log |-> <<>>], lookup_tables, table_schema, order)

\* tests::test_create_collisions: every call is followed by expect(), which
\* ends the run when the call failed.
PrimaryName == "collisions"
PrimarySchema == "schema/collisions.sql"
PrimaryData == "tests/data/collisions.csv"

\* The build without expect() on init_lookup_tables: the primary table is
\* created and loaded whatever init_lookup_tables returned.
TestCreateCollisionsNoExpect(schemas, order) ==
    The({The({IF ~c.res.ok THEN c
              ELSE CallLoad(c, "primary", PrimaryName, PrimaryData) :
                c \in {CallCreate(i, "primary", PrimaryName, "", PrimarySchema)}}) :
           i \in {init_lookup_tables(EmptyDB, schemas.lookup_tables,
                                     schemas.lookup_schema, order)}})

test_create_collisions(schemas, order) ==
    The({IF ~i.res.ok THEN i
         ELSE The({IF ~c.res.ok THEN c
                   ELSE CallLoad(c, "primary", PrimaryName, PrimaryData) :
                     c \in {CallCreate(i, "primary", PrimaryName, "", PrimarySchema)}}) :
           i \in {init_lookup_tables(EmptyDB, schemas.lookup_tables,
                                     schemas.lookup_schema, order)}})

------------------------------------------------------------------------------
(* Inputs *)

LookupNames == {"beat_type", "day_of_week"}
TableNames == {"beat_type", PrimaryName}
PkTypes == {"CHAR(1)"}
SchemaPaths == {"schema/pk_table.sql", "schema/collisions.sql", "schema/bad.sql",
                "schema/none.sql"}
DataPaths == {"lookup-tables/BEAT_TYPE.csv", "lookup-tables/DAY_OF_WEEK.csv",
              "tests/data/dup.csv", "tests/data/malformed.csv", "tests/data/empty.csv",
              "tests/data/collisions.csv", "tests/data/collisions_null.csv",
              "tests/data/none.csv"}

LookupTable(pk_type, data, schema) == [pk_type |-> pk_type, data |-> data, schema |-> schema]

LookupEntries(name) ==
    IF name = "beat_type"
    THEN {LookupTable("CHAR(1)", "lookup-tables/BEAT_TYPE.csv", <<>>),
          LookupTable("CHAR(1)", "tests/data/dup.csv", <<>>),
          LookupTable("CHAR(1)", "lookup-tables/BEAT_TYPE.csv", <<"schema/custom.sql">>)}
    ELSE {LookupTable("CHAR(2)", "lookup-tables/DAY_OF_WEEK.csv", <<>>),
          LookupTable("CHAR(2)", "tests/data/malformed.csv", <<>>),
          LookupTable("CHAR(2)", "lookup-tables/DAY_OF_WEEK.csv", <<"schema/bad.sql">>),
          LookupTable("CHAR(2)", "tests/data/none.csv", <<>>)}

Schemas ==
    {[lookup_schema |-> "schema/pk_table.sql", lookup_tables |-> m] :
        m \in UNION {{f \in [S -> UNION {LookupEntries(n) : n \in S}] :
                          \A n \in S : f[n] \in LookupEntries(n)} :
                     S \in (SUBSET LookupNames) \ {{}}}}

------------------------------------------------------------------------------
(* The state machine: calls made one after another on one connection.      *)
(* last records the latest call with the database before it; log holds the *)
(* steps of the latest init_lookup_tables or build; loaded holds the       *)
(* tables a load_data has succeeded on.                                    *)

NoSchemas == [lookup_schema |-> "", lookup_tables |-> EmptyDB]

NoCall ==
    [op |-> "none", name |-> "", path |-> "", res |-> Ok(0), pre |-> EmptyDB,
     count |-> 0, touched |-> FALSE, tables |-> {}, schemas |-> NoSchemas]

Init ==
    /\ db = EmptyDB
    /\ last = NoCall
    /\ log = <<>>
    /\ loaded = {}
    /\ ops = 0

CreateTable(name, pk_type, table_schema) ==
    /\ ops < MaxOps
    /\ \E r \in {create_table(db, name, pk_type, table_schema)} :
           /\ db' = r.db
           /\ last' = [op |-> "create_table", name |-> name, path |-> table_schema,
                       res |-> r.res, pre |-> db, count |-> 0, touched |-> r.executed,
                       tables |-> {}, schemas |-> NoSchemas]
    /\ ops' = ops + 1
    /\ UNCHANGED <<log, loaded>>

LoadData(name, table_data) ==
    /\ ops < MaxOps
    /\ \E r \in {load_data(db, name, table_data)} :
           /\ db' = r.db
           /\ last' = [op |-> "load_data", name |-> name, path |-> table_data,
                       res |-> r.res, pre |-> db, count |-> r.count,
                       touched |-> r.prepared, tables |-> {}, schemas |-> NoSchemas]
           /\ loaded' = IF r.res.ok THEN loaded \cup {name} ELSE loaded
    /\ ops' = ops + 1
    /\ UNCHANGED log

LoadedBy(steps) ==
    {steps[i].name : i \in {k \in 1..Len(steps) : steps[k].op = "load_data" /\ steps[k].ok}}

InitLookupTables(schemas, order) ==
    /\ ops < MaxOps
    /\ \E r \in {init_lookup_tables(db, schemas.lookup_tables, schemas.lookup_schema, order)} :
           /\ db' = r.db
           /\ last' = [op |-> "init_lookup_tables", name |-> "", path |-> schemas.lookup_schema,
                       res |-> r.res, pre |-> db, count |-> 0, touched |-> TRUE,
                       tables |-> DOMAIN schemas.lookup_tables,
                       schemas |-> schemas]
           /\ log' = r.log
           /\ loaded' = loaded \cup LoadedBy(r.log)
    /\ ops' = ops + 1

TestCreateCollisions(schemas, order) ==
    /\ ops = 0
    /\ \E r \in {test_create_collisions(schemas, order)} :
           /\ db' = r.db
           /\ last' = [op |-> "test_create_collisions", name |-> PrimaryName,
                       path |-> PrimaryData, res |-> r.res, pre |-> db, count |-> 0,
                       touched |-> TRUE, tables |-> DOMAIN schemas.lookup_tables,
                       schemas |-> schemas]
           /\ log' = r.log
           /\ loaded' = LoadedBy(r.log)
    /\ ops' = MaxOps

Next ==
    \/ \E name \in TableNames, pk_type \in PkTypes, table_schema \in SchemaPaths :
           CreateTable(name, pk_type, table_schema)
    \/ \E name \in TableNames, table_data \in DataPaths : LoadData(name, table_data)
    \/ \E schemas \in Schemas : \E order \in Orders(DOMAIN schemas.lookup_tables) :
           InitLookupTables(schemas, order)
    \/ \E schemas \in Schemas : \E order \in Orders(DOMAIN schemas.lookup_tables) :
           TestCreateCollisions(schemas, order)

Spec == Init /\ [][Next]_vars

------------------------------------------------------------------------------
(* Properties of load_data *)

IsLoad == last.op = "load_data"

\* The file and header of the latest load_data, when the file could be read.
LoadCsv == FileSystem[last.path]
LoadOpened == IsLoad /\ Readable(last.path, "csv")
LoadFields == TrimRecord(LoadCsv.header)

RowsBefore == Len(Rows(last.pre, last.name))
RowsAfter == Len(Rows(db, last.name))

ColOf(tbl, n) == CHOOSE j \in 1..Len(tbl.cols) : tbl.cols[j].name = n

\* What the table stores for field i of data row k of the file.
Stored(k, i) == db[last.name].rows[RowsBefore + k][ColOf(db[last.name], LoadFields[i])]

OnlySpace(s) == \A i \in 1..Len(s) : s[i] = " "

\* t is s without its leading and trailing whitespace.
IsTrimOf(t, s) ==
    /\ t # <<>> => (t[1] # " " /\ t[Len(t)] # " ")
    /\ \E a \in 0..Len(s) : \E b \in a..Len(s) :
           /\ OnlySpace(SubSeq(s, 1, a))
           /\ OnlySpace(SubSeq(s, b + 1, Len(s)))
           /\ t = SubSeq(s, a + 1, b)

OthersUnchanged ==
    /\ DOMAIN db = DOMAIN last.pre
    /\ \A t \in DOMAIN db : t # last.name => db[t] = last.pre[t]

OldRowsKept ==
    last.name \in DOMAIN last.pre =>
        /\ last.name \in DOMAIN db
        /\ db[last.name].cols = last.pre[last.name].cols
        /\ SubSeq(db[last.name].rows, 1, RowsBefore) = last.pre[last.name].rows

\* C1: a successful load_data of a file with N data rows on an existing table
\* returns N, the table holds exactly N more rows than before, and row k of
\* the N holds, in the column named by header field i, the value of field i
\* of data row k.
C1_LoadReturnsRowCount ==
    (LoadOpened /\ last.res.ok /\ last.name \in DOMAIN last.pre) =>
        LET N == Len(LoadCsv.rows)
        IN  /\ last.res.val = N
            /\ RowsAfter = RowsBefore + N
            /\ OldRowsKept
            /\ OthersUnchanged
            /\ \A k \in 1..N : \A i \in 1..Len(LoadFields) :
                   \/ Stored(k, i).isNull /\ OnlySpace(LoadCsv.rows[k][i])
                   \/ ~Stored(k, i).isNull /\ IsTrimOf(Stored(k, i).text, LoadCsv.rows[k][i])

C1_Witness ==
    /\ LoadOpened /\ last.res.ok /\ last.name \in DOMAIN last.pre
    /\ RowsBefore > 0
    /\ last.res.val = 3
    /\ RowsAfter = RowsBefore + 3
    /\ Len(LoadFields) = 2

Cell(k, i) == LoadCsv.rows[k][i]

\* C2 as stated: of every inserted data row, an empty cell is stored as
\* NULL and every non-empty cell is stored as exactly its text.
C2_VerbatimCells ==
    (LoadOpened /\ last.touched) =>
        \A k \in 1..last.count : \A i \in 1..Len(LoadFields) :
            /\ Cell(k, i) = <<>> => Stored(k, i) = Null
            /\ Cell(k, i) # <<>> => Stored(k, i) = Text(Cell(k, i))

\* C2 as amended: every cell is stored after its surrounding whitespace is
\* removed; a cell that is empty after that is stored as NULL, every other
\* cell is stored as its trimmed text, and a lone "-" stays the text "-".
C2_TrimmedCells ==
    (LoadOpened /\ last.touched) =>
        \A k \in 1..last.count : \A i \in 1..Len(LoadFields) :
            /\ OnlySpace(Cell(k, i)) => Stored(k, i) = Null
            /\ ~OnlySpace(Cell(k, i)) =>
                   /\ ~Stored(k, i).isNull
                   /\ IsTrimOf(Stored(k, i).text, Cell(k, i))
            /\ Cell(k, i) = <<"-">> => Stored(k, i) = Text(<<"-">>)

C2_Witness ==
    /\ LoadOpened /\ last.touched /\ last.count = 3
    /\ \E k \in 1..3 : \E i \in 1..2 : Cell(k, i) = <<"-">> /\ Stored(k, i) = Text(<<"-">>)
    /\ \E k \in 1..3 : \E i \in 1..2 : Cell(k, i) = <<" ">> /\ Stored(k, i) = Null
    /\ \E k \in 1..3 : \E i \in 1..2 :
           Cell(k, i) = <<" ", "x", " ", "y", " ">> /\ Stored(k, i) = Text(<<"x", " ", "y">>)

\* C3: when the header has zero columns load_data returns 0, prepares no
\* statement and leaves every table as it was.
C3_EmptyHeaderNoOp ==
    (LoadOpened /\ Len(LoadCsv.header) = 0) =>
        /\ last.res = Ok(0)
        /\ ~last.touched
        /\ db = last.pre

C3_Witness ==
    /\ LoadOpened /\ Len(LoadCsv.header) = 0
    /\ last.name \in DOMAIN last.pre
    /\ RowsBefore > 0
    /\ last.res = Ok(0)

\* The first data row of the file that load_data did not insert.
Failing == last.count + 1

FailingParams == Params(TrimRecord(LoadCsv.rows[Failing]))

InsertedArePrefix ==
    /\ RowsAfter = RowsBefore + last.count
    /\ OldRowsKept
    /\ OthersUnchanged
    /\ \A k \in 1..last.count : \A i \in 1..Len(LoadFields) :
           Stored(k, i) = Param(Trim(Cell(k, i)))

Gained == RowsAfter - RowsBefore

\* C4: when the table did not gain every data row of the file and the first
\* row it lacks is well formed, the insert of that row failed: load_data
\* returned a database error, the rows before the failing row are in the
\* table, and neither the failing row nor any row after it is.
C4_InsertFailureAborts ==
    (LoadOpened /\ last.touched /\ Gained < Len(LoadCsv.rows)
                /\ Len(LoadCsv.rows[Gained + 1]) = Len(LoadFields)) =>
        /\ last.res = Err("DatabaseError")
        /\ last.count = Gained
        /\ ~InsertOk(db, last.name, LoadFields, FailingParams)
        /\ InsertedArePrefix

C4_Witness ==
    /\ LoadOpened /\ last.touched /\ last.res.err = "DatabaseError"
    /\ last.count = 1
    /\ Len(LoadCsv.rows) = 3
    /\ RowsAfter = RowsBefore + 1
    /\ \A k \in 1..RowsAfter : db[last.name].rows[k][1] # Text(<<"C">>)

\* C5 as stated: when a row fails, load_data still returns the count of the
\* rows inserted before the failure.
C5_CountOnFailure ==
    (LoadOpened /\ last.touched /\ last.count < Len(LoadCsv.rows)) =>
        /\ last.res.ok
        /\ last.res.val = last.count

\* C5 as amended: load_data returns a count only on success, and it is the
\* number of rows inserted; when a row fails it returns the error and no
\* count, while the table has gained the rows inserted before the failure.
C5_CountOnlyOnSuccess ==
    (LoadOpened /\ last.touched) =>
        /\ RowsAfter = RowsBefore + last.count
        /\ last.res.ok <=> last.count = Len(LoadCsv.rows)
        /\ last.res.ok => last.res = Ok(RowsAfter - RowsBefore)
        /\ ~last.res.ok => last.res \in {Err("DatabaseError"), Err("FormatError")}

C5_Witness ==
    /\ LoadOpened /\ last.touched
    /\ ~last.res.ok
    /\ last.count = 1
    /\ RowsAfter = RowsBefore + 1
    /\ RowsBefore > 0

Malformed(k) == Len(LoadCsv.rows[k]) # Len(LoadCsv.header)

FirstMalformed ==
    CHOOSE m \in 1..Len(LoadCsv.rows) : Malformed(m) /\ \A k \in 1..(m - 1) : ~Malformed(k)

\* C6: when the file holds a data row whose column count differs from the
\* header's, load_data fails, no row from the malformed one on is inserted,
\* and when the rows before it were all inserted the failure is a format
\* error and the table holds, beyond what it held, exactly those rows.
C6_MalformedRowAborts ==
    (LoadOpened /\ last.touched /\ \E m \in 1..Len(LoadCsv.rows) : Malformed(m)) =>
        /\ ~last.res.ok
        /\ last.count < FirstMalformed
        /\ InsertedArePrefix
        /\ last.count = FirstMalformed - 1 => last.res = Err("FormatError")

C6_Witness ==
    /\ LoadOpened /\ last.touched
    /\ last.res = Err("FormatError")
    /\ last.count = 1
    /\ Len(LoadCsv.rows) = 3
    /\ RowsAfter = RowsBefore + 1

------------------------------------------------------------------------------
(* Properties of create_table, init_lookup_tables and the build *)

IsBuild == last.op = "test_create_collisions"
IsInit == last.op = "init_lookup_tables"

StepOk(i, op, name) == log[i].op = op /\ log[i].name = name /\ log[i].ok

\* C7: in a build, whenever a step on a primary table happens, every lookup
\* table of the schema has been created and loaded by earlier steps, and all
\* steps before it succeeded; after a failed lookup step there is no primary
\* step at all.
C7_LookupsBeforePrimary ==
    IsBuild =>
        \A i \in 1..Len(log) :
            log[i].kind = "primary" =>
                /\ \A n \in last.tables :
                       /\ \E j \in 1..(i - 1) : StepOk(j, "create_table", n)
                       /\ \E j \in 1..(i - 1) : StepOk(j, "load_data", n)
                /\ \A j \in 1..(i - 1) : log[j].ok
                /\ \A j \in i..Len(log) : log[j].kind = "primary"

C7_Witness ==
    /\ IsBuild /\ last.res = Ok(3)
    /\ last.tables = LookupNames
    /\ Len(log) = 6
    /\ log[5].kind = "primary" /\ log[6].kind = "primary"
    /\ Len(db[PrimaryName].rows) = 3

\* The failed lookup steps of a build end it: a second reachable case of C7.
C7_FailedInitWitness ==
    /\ IsBuild /\ ~last.res.ok
    /\ Len(log) = 4
    /\ \A i \in 1..Len(log) : log[i].kind = "lookup"

\* C9: create_table of a name that the same template already created on the
\* connection fails with a database error and leaves that table, rows
\* included, as it was.
CreatedBySame(name, pk_type, path) ==
    /\ name \in DOMAIN last.pre
    /\ path \in DOMAIN FileSystem
    /\ RenderOk(FileSystem[path].stmts, TemplateData(name, pk_type))
    /\ last.pre[name].cols = Render(FileSystem[path].stmts, TemplateData(name, pk_type))[1].cols

Touched == {log[i].name : i \in 1..Len(log)}

C10_InitAbortsOnFirstFailure ==
    (IsInit /\ ~last.res.ok) =>
        /\ Len(log) > 0
        /\ ~log[Len(log)].ok
        /\ last.res = Err(log[Len(log)].err)
        /\ \A i \in 1..(Len(log) - 1) : log[i].ok
        /\ Cardinality(Touched) = (Len(log) + 1) \div 2
        /\ Cardinality(Touched) = Cardinality(LoadedBy(log)) + 1
        /\ \A i \in 1..(Len(log) - 1) :
               log[i].op = "load_data" =>
                   /\ log[i].name \in DOMAIN db
                   /\ db[log[i].name] = log[i].db[log[i].name]
        /\ \A t \in DOMAIN last.pre : t \notin Touched => (t \in DOMAIN db /\ db[t] = last.pre[t])

C10_Witness ==
    /\ IsInit /\ ~last.res.ok
    /\ last.tables = LookupNames
    /\ Len(log) = 4
    /\ log[2].op = "load_data" /\ log[2].ok
    /\ Len(db[log[2].name].rows) > 0
    /\ log[4].op = "load_data" /\ ~log[4].ok
    /\ DOMAIN last.pre # {}

------------------------------------------------------------------------------
(* Order of a primary table and the lookup table it references *)

\* The tables that the columns of the loaded table reference.
RefsOf(d, name) ==
    {d[name].cols[j].ref : j \in {c \in 1..Len(d[name].cols) : d[name].cols[c].ref # ""}}

Keys(d, t) ==
    {d[t].rows[k][p] : k \in 1..Len(d[t].rows), p \in PkIndex(d[t])}

IsPrimaryLoad ==
    /\ LoadOpened
    /\ last.name \in DOMAIN last.pre
    /\ RefsOf(last.pre, last.name) # {}

C8_ReverseOrderWitness ==
    /\ IsPrimaryLoad /\ Len(LoadCsv.header) > 0
    /\ "beat_type" \notin DOMAIN last.pre
    /\ last.res = Err("DatabaseError")

------------------------------------------------------------------------------
(* Calls made by init_lookup_tables *)

Entry(n) == last.schemas.lookup_tables[n]

LookupSteps == {i \in 1..Len(log) : log[i].kind = "lookup"}

\* The template the entry asks for: its own when it has one, else the default.
TemplateOf(n) ==
    IF Len(Entry(n).schema) = 1 THEN Entry(n).schema[1] ELSE last.schemas.lookup_schema

\* C11: the calls of init_lookup_tables come in pairs, one pair per entry:
\* create_table with the entry's name, its pk_type and its own template when
\* it has one, else the default, then load_data for the same table with the
\* entry's data file; load_data is called only right after a successful
\* create_table of its table, and a successful run has a pair for every entry.
C11_CreateThenLoadPerEntry ==
    (IsInit \/ IsBuild) =>
        /\ \A i \in LookupSteps :
               /\ log[i].name \in DOMAIN last.schemas.lookup_tables
               /\ i % 2 = 1 =>
                      /\ log[i].op = "create_table"
                      /\ log[i].path = TemplateOf(log[i].name)
                      /\ log[i].ok =>
                             /\ log[i].name \in DOMAIN log[i].db
                             /\ log[i].db[log[i].name].rows = <<>>
                             /\ \E j \in PkIndex(log[i].db[log[i].name]) :
                                    log[i].db[log[i].name].cols[j].type
                                        = Entry(log[i].name).pk_type
                      /\ \A j \in LookupSteps : (j < i) => log[j].name # log[i].name
               /\ i % 2 = 0 =>
                      /\ log[i].op = "load_data"
                      /\ log[i].name = log[i - 1].name
                      /\ log[i].path = Entry(log[i].name).data
                      /\ log[i - 1].op = "create_table" /\ log[i - 1].ok
        /\ (IsInit /\ last.res.ok) =>
               \A n \in DOMAIN last.schemas.lookup_tables :
                   \E i \in LookupSteps : log[i].op = "load_data" /\ log[i].name = n /\ log[i].ok

C11_Witness ==
    /\ IsInit /\ last.res.ok
    /\ last.tables = LookupNames
    /\ Len(log) = 4
    /\ \E i \in {1, 3} : log[i].path = "schema/custom.sql" /\ Len(log[i].db[log[i].name].cols) = 3
    /\ \E i \in {1, 3} : log[i].path = "schema/pk_table.sql"
                           /\ log[i].db[log[i].name].cols[1].type = "CHAR(2)"

\* The outcome of the latest init_lookup_tables had the mapping been iterated
\* in the order o.
InOrder(o) ==
    init_lookup_tables(last.pre, last.schemas.lookup_tables, last.schemas.lookup_schema, o)

\* C12: whatever the order in which the mapping is iterated, the call of
\* init_lookup_tables succeeds or fails alike, and when it succeeds the
\* database it leaves (the tables and their rows) is the same.
C12_OrderIndependent ==
    IsInit =>
        \A o \in Orders(last.tables) :
            \E r \in {InOrder(o)} :
                /\ r.res.ok = last.res.ok
                /\ last.res.ok => r.db = db

C12_Witness ==
    /\ IsInit /\ last.res.ok
    /\ last.tables = LookupNames
    /\ log[1].name = "day_of_week"
    /\ \E o \in Orders(last.tables) :
           /\ o[1] = "beat_type"
           /\ InOrder(o).log # log
           /\ InOrder(o).db = db
    /\ Len(db["beat_type"].rows) = 2
    /\ Len(db["day_of_week"].rows) = 3

\* The orders differ in what a failed call leaves behind.
C12_FailureDiffersWitness ==
    /\ IsInit /\ ~last.res.ok
    /\ \E o \in Orders(last.tables) : InOrder(o).db # db

------------------------------------------------------------------------------
(* Steps of create_table *)

IsCreate == last.op = "create_table"

TemplateReadable == last.path \in DOMAIN FileSystem

\* The keys the template asks for beyond the two that create_table supplies.
UnknownKeys == Placeholders(FileSystem[last.path].stmts) \ {"table", "pk_type"}

\* C13: create_table reads the template, renders it, then executes it: when
\* the template cannot be read it returns the read error, when it cannot be
\* rendered it returns the render error (also when the execution would have
\* failed), and in both cases nothing is executed and the database is as it
\* was; otherwise the rendered DDL is executed.
C13_ReadRenderExecute ==
    IsCreate =>
        /\ ~TemplateReadable =>
               (last.res = Err("IOError") /\ ~last.touched /\ db = last.pre)
        /\ (TemplateReadable /\ UnknownKeys # {}) =>
               (last.res = Err("TemplateError") /\ ~last.touched /\ db = last.pre)
        /\ (TemplateReadable /\ UnknownKeys = {}) =>
               /\ last.touched
               /\ last.res.ok => (last.name \notin DOMAIN last.pre /\ last.name \in DOMAIN db)
               /\ ~last.res.ok => (last.res = Err("DatabaseError") /\ db = last.pre)

C13_Witness ==
    /\ IsCreate /\ TemplateReadable /\ UnknownKeys # {}
    /\ last.name \in DOMAIN last.pre
    /\ Len(last.pre[last.name].rows) > 0
    /\ last.res = Err("TemplateError")
    /\ db = last.pre

C13_ReadErrorWitness ==
    /\ IsCreate /\ ~TemplateReadable
    /\ DOMAIN last.pre # {}
    /\ last.res = Err("IOError")

------------------------------------------------------------------------------
(* switrs-to-csv: parse_time and parse_weekday (switrs-to-csv/src/lib.rs)  *)

\* Largest time and day passed to the parsers, besides the times of FarTimes.
MaxTime == 2460
MaxDay == 20

\* usize as u8
U8(x) == x % 256

\* Time::from_hms: every component must be in its range.
from_hms(hour, minute, second) ==
    IF hour <= 23 /\ minute <= 59 /\ second <= 59
    THEN Ok([hour |-> hour, minute |-> minute, second |-> second])
    ELSE Err("ComponentRange")

\* parse_time taking 2359 itself as out of range.
ParseTimeInclusive(time) ==
    IF time >= 2359 THEN from_hms(0, 0, 0)
    ELSE LET minute == time % 100
             hour == time \div 100
         IN  from_hms(U8(hour), U8(minute), 0)

parse_time(time) ==
    IF time > 2359 THEN from_hms(0, 0, 0)
    ELSE LET minute == time % 100
             hour == time \div 100
         IN  from_hms(U8(hour), U8(minute), 0)

\* Weekday, in the order of Weekday::number_days_from_monday.
Weekdays ==
    <<"Monday", "Tuesday", "Wednesday", "Thursday", "Friday", "Saturday", "Sunday">>

number_days_from_monday(w) == (CHOOSE i \in 1..Len(Weekdays) : Weekdays[i] = w) - 1

\* Weekday::nth_next
nth_next(w, n) == Weekdays[((number_days_from_monday(w) + (n % 7)) % 7) + 1]

\* parse_weekday counting from Sunday instead of Saturday.
ParseWeekdayFromSunday(day) ==
    IF day > 7 THEN Err("day of week is more than 7")
    ELSE Ok(nth_next("Sunday", U8(day)))

parse_weekday(day) ==
    IF day > 7 THEN Err("day of week is more than 7")
    ELSE Ok(nth_next("Saturday", U8(day)))

\* Times past the range of a u8 hour.
FarTimes == {25600, 25601, 65536, 65595}

TimeInputs == (0..MaxTime) \cup FarTimes
DayInputs == 0..MaxDay

\* One call of a parser in a run; last records the call.
ParseTime(time) ==
    /\ ops = 0
    /\ last' = [op |-> "parse_time", arg |-> time, res |-> parse_time(time)]
    /\ ops' = 1
    /\ UNCHANGED <<db, log, loaded>>

ParseWeekday(day) ==
    /\ ops = 0
    /\ last' = [op |-> "parse_weekday", arg |-> day, res |-> parse_weekday(day)]
    /\ ops' = 1
    /\ UNCHANGED <<db, log, loaded>>

NextParse ==
    \/ \E time \in TimeInputs : ParseTime(time)
    \/ \E day \in DayInputs : ParseWeekday(day)

SpecParse == Init /\ [][NextParse]_vars

Hms(h, m, s) == [hour |-> h, minute |-> m, second |-> s]

\* C14: for t in 0..2359 with last two digits at most 59, parse_time(t) is
\* the time t div 100 : t mod 100 : 00; for t in 0..2359 with last two digits
\* above 59 it is an error; for t above 2359 it is 00:00:00, not an error.
C14_ParseTime ==
    last.op = "parse_time" =>
        LET t == last.arg IN
        /\ (t <= 2359 /\ t % 100 <= 59) => last.res = Ok(Hms(t \div 100, t % 100, 0))
        /\ (t <= 2359 /\ t % 100 > 59) => ~last.res.ok
        /\ t > 2359 => last.res = Ok(Hms(0, 0, 0))

C14_Witness ==
    /\ last.op = "parse_time"
    /\ last.arg = 2359
    /\ last.res = Ok(Hms(23, 59, 0))

C14_MinuteErrorWitness ==
    /\ last.op = "parse_time" /\ last.arg = 1260 /\ ~last.res.ok

C14_PastRangeWitness ==
    /\ last.op = "parse_time" /\ last.arg = 2360 /\ last.res = Ok(Hms(0, 0, 0))

\* The days of the week counted from Sunday = 1.
FromSunday ==
    <<"Sunday", "Monday", "Tuesday", "Wednesday", "Thursday", "Friday", "Saturday">>

\* C15: parse_weekday(day) is, for day in 1..7, the weekday day steps after
\* Saturday (1 = Sunday, ..., 7 = Saturday); it is an error for every day
\* above 7; and for day 0 it is Saturday, not an error.
C15_ParseWeekday ==
    last.op = "parse_weekday" =>
        LET day == last.arg IN
        /\ day \in 1..7 => last.res = Ok(FromSunday[day])
        /\ day > 7 => ~last.res.ok
        /\ day = 0 => last.res = Ok("Saturday")

C15_Witness ==
    /\ last.op = "parse_weekday"
    /\ last.arg = 1
    /\ last.res = Ok("Sunday")

C15_ZeroWitness ==
    /\ last.op = "parse_weekday" /\ last.arg = 0 /\ last.res = Ok("Saturday")

====
